---- MODULE Spec2Model ----
(***************************************************************************)
(* Model of YTController/sender.py: a single-process relay that turns      *)
(* global hotkey presses into Socket.IO 'command_to_browser' broadcasts.   *)
(*                                                                         *)
(* Execution contexts of the program, each with its own position:          *)
(*   - the main thread (lines 116-133): pcMain, server, pending, exitCode  *)
(*   - the daemon listener thread (lines 98-104): lpc, lidx, hooks         *)
(*   - one background task per handled press (lines 82-85): tasks          *)
(*   - the Socket.IO server's connections (lines 71-79): connState, inbox  *)
(* The keyboard and flask_socketio libraries are the environment: their    *)
(* calls are modelled by the outcomes the caller can observe (return or    *)
(* raise), chosen nondeterministically.                                    *)
(* stdout is kept as a bag of printed lines (order between threads is not  *)
(* recorded).                                                              *)
(***************************************************************************)
EXTENDS Naturals, Sequences, FiniteSets, Bags, TLC

\* ---------------------------------------------------------------- bounds
MaxConns == 2        \* connections that ever attempt the handshake
MaxPresses == 2      \* calls of on_hotkey_press

\* ----------------------------------------------------------- configuration
\* HOTKEY_ACTIONS, lines 16-42, in dictionary (insertion) order.
HotkeyOrder == << "pause break", "f2", "f3", "f4", "escape", "f6" >>

HOTKEY_ACTIONS ==
    [k \in {HotkeyOrder[i] : i \in 1..Len(HotkeyOrder)} |->
        CASE k = "pause break" ->
               [log_message |-> "Pause/Break pressed: Toggling play/pause.",
                emit_action |-> "toggle_play_pause"]
          [] k = "f2" ->
               [log_message |-> "F2 pressed: Skipping to next video.",
                emit_action |-> "next_video"]
          [] k = "f3" ->
               [log_message |-> "F3 pressed: Adjusting volume up.",
                emit_action |-> "volume_up"]
          [] k = "f4" ->
               [log_message |-> "F4 pressed: Adjusting volume down.",
                emit_action |-> "volume_down"]
          [] k = "escape" ->
               [log_message |-> "F5 pressed: Rewinding video.",
                emit_action |-> "rewind"]
          [] k = "f6" ->
               [log_message |-> "F6 pressed: Forwarding video.",
                emit_action |-> "forward"]]

Registered == DOMAIN HOTKEY_ACTIONS

\* Identifiers handed to on_hotkey_press directly: one registered, one not.
PressKeys == {"f2", "f9"}

\* Two registered identifiers with different actions, for press order.
OrderKeys == {"pause break", "f2"}

\* Lines 10-11: where the server listens.
SERVER_HOST == "127.0.0.1"
SERVER_PORT == 8000

\* Connection identifiers (request.sid); a sid is never reused.  Sids are
\* arbitrary names, so the k-th connection to arrive is called k.
Conns == 1..MaxConns

VARIABLES
    pcMain,      \* position of the main thread
    server,      \* socketio.run: "not_started", "accepting", "stopped", "failed"
    pending,     \* exception travelling through the finally block
    exitCode,    \* process exit status: "none" while alive, "zero", "nonzero"
    unhookCalls, \* number of keyboard.unhook_all() calls made
    lpc,         \* position of the listener thread
    lidx,        \* index in HotkeyOrder of the next add_hotkey
    hooks,       \* callbacks held by the keyboard library: [combo, hs]
    regFailed,   \* combinations whose add_hotkey raised
    connState,   \* per connection: "NEW", "OPEN", "CLOSED"
    inbox,       \* per connection: messages the client received, in order
    pressed,     \* arguments of the on_hotkey_press calls so far, in order
    tasks,       \* background tasks started by on_hotkey_press: press (index
                 \* of the call), info (action_info), pc, todo (recipients
                 \* emit has still to send to), emits (socketio.emit calls
                 \* made), joinedAtEmit (connections that had arrived
                 \* when emit was called)
    stdout,      \* bag of printed lines
    response     \* the last HTTP response of the status route

vars == << pcMain, server, pending, exitCode, unhookCalls, lpc, lidx, hooks,
           regFailed, connState, inbox, pressed, tasks, stdout, response >>

mainVars == << pcMain, server, pending, exitCode, unhookCalls >>
listenerVars == << lpc, lidx, regFailed >>
connVars == << connState, inbox >>
relayVars == << pressed, tasks >>

\* ------------------------------------------------------------------ helpers
\* One printed line: what was printed and about which key / connection.
Line(kind, key, sid) == [kind |-> kind, key |-> key, sid |-> sid]

\* print(...): one more copy of the line on stdout.
print(line) == stdout (+) SetToBag({line})

Printed(line) == CopiesIn(line, stdout)

Alive == pcMain # "exited"

OpenConns == {c \in Conns : connState[c] = "OPEN"}

\* Connections that have completed the handshake so far, open or closed.
Joined == {c \in Conns : connState[c] # "NEW"}

\* No request has been answered yet.
NoResponse == [status |-> 0, text |-> "", host |-> "", port |-> 0]

Init ==
    /\ pcMain = "start_thread"
    /\ server = "not_started"
    /\ pending = "none"
    /\ exitCode = "none"
    /\ unhookCalls = 0
    /\ lpc = "not_started"
    /\ lidx = 1
    /\ hooks = {}
    /\ regFailed = {}
    /\ connState = [c \in Conns |-> "NEW"]
    /\ inbox = [c \in Conns |-> << >>]
    /\ pressed = << >>
    /\ tasks = << >>
    /\ stdout = EmptyBag
    /\ response = NoResponse

\* ---------------------------------------------------------- main thread
\* Lines 119-120: create and start the daemon listener thread.
StartListenerThread ==
    /\ pcMain = "start_thread"
    /\ pcMain' = "load_up"
    /\ lpc' = "registering"
    /\ UNCHANGED << response, server, pending, exitCode, unhookCalls, lidx, hooks,
                    regFailed, connVars, relayVars, stdout >>

\* Line 122, lines 106-113: the start-up banner.
load_up_message ==
    /\ pcMain = "load_up"
    /\ pcMain' = "run"
    /\ stdout' = print(Line("banner", "", 0))
    /\ UNCHANGED << response, server, pending, exitCode, unhookCalls, listenerVars,
                    hooks, connVars, relayVars >>

\* Line 127: socketio.run binds the port and starts accepting ...
ServerStarts ==
    /\ pcMain = "run"
    /\ pcMain' = "serving"
    /\ server' = "accepting"
    /\ UNCHANGED << response, pending, exitCode, unhookCalls, listenerVars, hooks,
                    connVars, relayVars, stdout >>

\* ... or raises at start-up (port already bound); caught at line 128.
ServerStartFails ==
    /\ pcMain = "run"
    /\ pcMain' = "except"
    /\ server' = "failed"
    /\ UNCHANGED << response, pending, exitCode, unhookCalls, listenerVars, hooks,
                    connVars, relayVars, stdout >>

\* Line 127: socketio.run returns normally; control falls to finally.
ServerReturns ==
    /\ pcMain = "serving"
    /\ pcMain' = "finally"
    /\ server' = "stopped"
    /\ UNCHANGED << response, pending, exitCode, unhookCalls, listenerVars, hooks,
                    connVars, relayVars, stdout >>

\* Line 127: socketio.run raises an Exception while serving; line 128.
ServerRaises ==
    /\ pcMain = "serving"
    /\ pcMain' = "except"
    /\ server' = "stopped"
    /\ UNCHANGED << response, pending, exitCode, unhookCalls, listenerVars, hooks,
                    connVars, relayVars, stdout >>

\* Interrupt signal inside the try block: KeyboardInterrupt is not an
\* Exception, so line 128 does not catch it; the finally block runs with
\* the exception pending.
Interrupt ==
    /\ pcMain = "serving"
    /\ pcMain' = "finally"
    /\ server' = "stopped"
    /\ pending' = "KeyboardInterrupt"
    /\ UNCHANGED << response, exitCode, unhookCalls, listenerVars, hooks, connVars,
                    relayVars, stdout >>

\* Lines 128-130: the handler prints the cause and the guidance.
ExceptHandler ==
    /\ pcMain = "except"
    /\ pcMain' = "finally"
    /\ stdout' = print(Line("error_running_server", "", 0))
    /\ UNCHANGED << response, server, pending, exitCode, unhookCalls, listenerVars,
                    hooks, connVars, relayVars >>

\* A finally block that only prints and leaves the hooks in place.
M_FinallyBlock_no_unhook ==
    /\ pcMain = "finally"
    /\ pcMain' = "end"
    /\ stdout' = print(Line("stopped", "", 0))
    /\ UNCHANGED << response, server, pending, exitCode, unhookCalls, listenerVars,
                    hooks, connVars, relayVars >>

\* Lines 131-133: keyboard.unhook_all() and the final message.
FinallyBlock ==
    /\ pcMain = "finally"
    /\ pcMain' = "end"
    /\ hooks' = {}
    /\ unhookCalls' = unhookCalls + 1
    /\ stdout' = print(Line("stopped", "", 0))
    /\ UNCHANGED << response, server, pending, exitCode, listenerVars, connVars,
                    relayVars >>

\* End of the module: the pending exception, if any, reaches the top level
\* (non-zero status); otherwise the script ends and the status is 0.
ProcessExit ==
    /\ pcMain = "end"
    /\ pcMain' = "exited"
    /\ exitCode' = IF pending = "none" THEN "zero" ELSE "nonzero"
    /\ UNCHANGED << response, server, pending, unhookCalls, listenerVars, hooks,
                    connVars, relayVars, stdout >>

\* -------------------------------------------------------- listener thread
\* A registration whose callbacks all see the loop variable's last value
\* (a lambda without the hs=hotkey_string default).
M_add_hotkey_late_binding(hotkey_string) ==
    hooks \cup {[combo |-> hotkey_string,
                 hs |-> HotkeyOrder[Len(HotkeyOrder)]]}

\* Line 102: keyboard.add_hotkey(hotkey_string, lambda hs=hotkey_string: ...)
\* returns: the library now holds a callback whose default argument hs is
\* bound to this iteration's hotkey_string.
add_hotkey(hotkey_string) ==
    hooks \cup {[combo |-> hotkey_string, hs |-> hotkey_string]}

\* Lines 100-102: one iteration of the registration loop.
RegisterHotkey ==
    /\ Alive
    /\ lpc = "registering"
    /\ lidx <= Len(HotkeyOrder)
    /\ hooks' = add_hotkey(HotkeyOrder[lidx])
    /\ lidx' = lidx + 1
    /\ UNCHANGED << response, mainVars, lpc, regFailed, connVars, relayVars, stdout >>

\* Line 102: keyboard.add_hotkey raises (unsupported combination, missing
\* privilege).  The loop has no handler: the exception leaves
\* start_hotkey_listener and ends the thread.
RegisterHotkeyRaises ==
    /\ Alive
    /\ lpc = "registering"
    /\ lidx <= Len(HotkeyOrder)
    /\ regFailed' = regFailed \cup {HotkeyOrder[lidx]}
    /\ lpc' = "raised"
    /\ UNCHANGED << response, mainVars, lidx, hooks, connVars, relayVars, stdout >>

\* Line 103: the loop is over; the thread prints and ends.
ListenerStarted ==
    /\ Alive
    /\ lpc = "registering"
    /\ lidx > Len(HotkeyOrder)
    /\ lpc' = "done"
    /\ stdout' = print(Line("listener_started", "", 0))
    /\ UNCHANGED << response, mainVars, lidx, hooks, regFailed, connVars, relayVars >>

\* ------------------------------------------------------------ connections
\* A server that keeps the commands of earlier presses and replays them to
\* a client when it connects.
M_handle_connect_replays(sid) ==
    /\ Alive
    /\ server = "accepting"
    /\ connState[sid] = "NEW"
    /\ \A c \in Conns : c < sid => connState[c] # "NEW"
    /\ connState' = [connState EXCEPT ![sid] = "OPEN"]
    /\ inbox' = [inbox EXCEPT ![sid] =
                    @ \o [i \in 1..Len(tasks) |->
                             [event |-> "command_to_browser",
                              action |-> tasks[i].info.emit_action,
                              task |-> i]]]
    /\ stdout' = print(Line("connected", "", sid))
    /\ UNCHANGED << response, mainVars, listenerVars, hooks, relayVars >>

\* A connect handler that greets the new client with a command.
M_handle_connect_welcomes(sid) ==
    /\ Alive
    /\ server = "accepting"
    /\ connState[sid] = "NEW"
    /\ \A c \in Conns : c < sid => connState[c] # "NEW"
    /\ connState' = [connState EXCEPT ![sid] = "OPEN"]
    /\ inbox' = [inbox EXCEPT ![sid] =
                    Append(@, [event |-> "command_to_browser",
                               action |-> "welcome", task |-> 0])]
    /\ stdout' = print(Line("connected", "", sid))
    /\ UNCHANGED << response, mainVars, listenerVars, hooks, relayVars >>

\* Lines 71-74: a client completes the handshake; the handler only prints.
\* The Socket.IO server adds the connection to its set of participants.
handle_connect(sid) ==
    /\ Alive
    /\ server = "accepting"
    /\ connState[sid] = "NEW"
    /\ \A c \in Conns : c < sid => connState[c] # "NEW"
    /\ connState' = [connState EXCEPT ![sid] = "OPEN"]
    /\ stdout' = print(Line("connected", "", sid))
    /\ UNCHANGED << response, mainVars, listenerVars, hooks, inbox, relayVars >>

\* A disconnect that empties the whole set of participants.
M_handle_disconnect_clears_all(sid) ==
    /\ Alive
    /\ server = "accepting"
    /\ connState[sid] = "OPEN"
    /\ connState' = [c \in Conns |->
                        IF connState[c] = "OPEN" THEN "CLOSED"
                        ELSE connState[c]]
    /\ stdout' = print(Line("disconnected", "", sid))
    /\ UNCHANGED << response, mainVars, listenerVars, hooks, inbox, relayVars >>

\* Lines 76-79: a client goes away; the handler only prints.  The
\* Socket.IO server removes the connection from its set of participants.
handle_disconnect(sid) ==
    /\ Alive
    /\ server = "accepting"
    /\ connState[sid] = "OPEN"
    /\ connState' = [connState EXCEPT ![sid] = "CLOSED"]
    /\ stdout' = print(Line("disconnected", "", sid))
    /\ UNCHANGED << response, mainVars, listenerVars, hooks, inbox, relayVars >>

\* ---------------------------------------------------------- status route
\* Line 55: the f-string, as its literal text and the two values it
\* interpolates; Flask answers a returned string with status 200.
StatusBody ==
    [status |-> 200,
     text |-> "Desktop YouTube Controller Server running on ",
     host |-> SERVER_HOST,
     port |-> SERVER_PORT]

\* A status route that also pushes a command to the browsers, like the
\* disabled HTTP command route.
M_index_emits ==
    /\ Alive
    /\ server = "accepting"
    /\ response' = StatusBody
    /\ inbox' = [c \in Conns |->
                    IF connState[c] = "OPEN"
                    THEN Append(inbox[c], [event |-> "command_to_browser",
                                           action |-> "status", task |-> 0])
                    ELSE inbox[c]]
    /\ UNCHANGED << mainVars, listenerVars, hooks, connState, relayVars,
                    stdout >>

\* Lines 52-55: GET / while the server is serving.
index ==
    /\ Alive
    /\ server = "accepting"
    /\ response' = StatusBody
    /\ UNCHANGED << mainVars, listenerVars, hooks, connVars, relayVars,
                    stdout >>

\* Lines 71-79: 'connect' and 'disconnect' are the only handlers
\* registered, so any other event a client sends finds no handler and is
\* dropped by the server.
inbound_event(sid) ==
    /\ Alive
    /\ server = "accepting"
    /\ connState[sid] = "OPEN"
    /\ UNCHANGED vars

\* ------------------------------------------------------------------ relay
\* Line 90: HOTKEY_ACTIONS.get(hotkey_string); the empty set stands for None.
Get(hotkey_string) ==
    IF hotkey_string \in DOMAIN HOTKEY_ACTIONS
    THEN {HOTKEY_ACTIONS[hotkey_string]}
    ELSE {}

\* A relay that calls socketio.emit itself, on the capture context,
\* instead of handing the call to a background task.
M_start_background_task_inline(press, action_info) ==
    Append(tasks, [press |-> press, info |-> action_info,
                   pc |-> "sending", todo |-> OpenConns, emits |-> 1,
                   joinedAtEmit |-> Joined])

\* A relay that hands one press to two background tasks.
M_start_background_task_twice(press, action_info) ==
    LET task == [press |-> press, info |-> action_info,
                 pc |-> "scheduled", todo |-> {}, emits |-> 0,
                 joinedAtEmit |-> {}]
    IN  Append(Append(tasks, task), task)

\* Line 94: socketio.start_background_task(_send_command_to_browsers,
\* action_info) in 'threading' mode (line 49): a new thread that will run
\* the function with this argument.  press is the index of the call.
start_background_task(press, action_info) ==
    Append(tasks, [press |-> press, info |-> action_info,
                   pc |-> "scheduled", todo |-> {}, emits |-> 0,
                   joinedAtEmit |-> {}])

\* A relay that drops an unknown identifier without a notice.
M_UnhandledNotice_silent(hotkey_string) == stdout

\* Line 96: the notice for an identifier that is not in the table.
UnhandledNotice(hotkey_string) ==
    print(Line("unhandled", hotkey_string, 0))

\* Lines 88-96: on_hotkey_press.
on_hotkey_press(hotkey_string) ==
    /\ Alive
    /\ Len(pressed) < MaxPresses
    /\ pressed' = Append(pressed, hotkey_string)
    /\ IF Get(hotkey_string) # {}
       THEN /\ \E action_info \in Get(hotkey_string) :
                 tasks' = start_background_task(Len(pressed) + 1, action_info)
            /\ stdout' = stdout
       ELSE /\ stdout' = UnhandledNotice(hotkey_string)
            /\ tasks' = tasks
    /\ UNCHANGED << response, mainVars, listenerVars, hooks, connVars >>

\* Line 102: the keyboard library reports a registered combination and
\* runs its callback, lambda hs=...: on_hotkey_press(hs).
HotkeyCallback(combo) ==
    /\ \E h \in hooks : h.combo = combo /\ on_hotkey_press(h.hs)

\* Line 84: the payload {'action': action_info['emit_action']} of event
\* 'command_to_browser'; task identifies the emit call that carries it.
Payload(t) ==
    [event |-> "command_to_browser",
     action |-> tasks[t].info.emit_action,
     task |-> t]

\* An emit that walks every connection that ever joined, closed or not.
M_Participants_all_joined == Joined

\* An emit addressed to the first connection that joined only.
M_Participants_first_only == {c \in OpenConns : \A d \in OpenConns : c <= d}

\* Line 84: socketio.emit without room: the recipients are the
\* connections open when the call starts.
Participants == OpenConns

\* Line 84: emit walks the recipients in the order they joined, which is
\* the order of their sids.
NextRecipient(t) ==
    CHOOSE c \in tasks[t].todo : \A d \in tasks[t].todo : c <= d

\* Line 84: one message put on a connection's channel, which is FIFO.
Deliver(c, msg) == [inbox EXCEPT ![c] = Append(@, msg)]

\* A task that prints the success line before it calls socketio.emit.
M_TaskEmit_logs_first(t) ==
    /\ Alive
    /\ tasks[t].pc = "scheduled"
    /\ tasks' = [tasks EXCEPT ![t].pc = "sending",
                              ![t].todo = Participants,
                              ![t].emits = @ + 1,
                              ![t].joinedAtEmit = Joined]
    /\ stdout' = print(Line("sent", tasks[t].info.log_message, 0))
    /\ UNCHANGED << response, mainVars, listenerVars, hooks, connVars, pressed >>

\* Line 84: the task starts running and calls socketio.emit.
TaskEmit(t) ==
    /\ Alive
    /\ tasks[t].pc = "scheduled"
    /\ tasks' = [tasks EXCEPT ![t].pc = "sending",
                              ![t].todo = Participants,
                              ![t].emits = @ + 1,
                              ![t].joinedAtEmit = Joined]
    /\ UNCHANGED << response, mainVars, listenerVars, hooks, connVars, pressed, stdout >>

\* Line 84, inside emit: the message reaches one recipient.
SendDelivered(t, c) ==
    /\ Alive
    /\ tasks[t].pc = "sending"
    /\ tasks[t].todo # {}
    /\ c = NextRecipient(t)
    /\ connState[c] = "OPEN"
    /\ inbox' = Deliver(c, Payload(t))
    /\ tasks' = [tasks EXCEPT ![t].todo = @ \ {c}]
    /\ UNCHANGED << response, mainVars, listenerVars, hooks, connState, pressed, stdout >>

\* Line 84, inside emit: the recipient left after the call started; the
\* library skips it.
SendSkipped(t, c) ==
    /\ Alive
    /\ tasks[t].pc = "sending"
    /\ tasks[t].todo # {}
    /\ c = NextRecipient(t)
    /\ connState[c] # "OPEN"
    /\ tasks' = [tasks EXCEPT ![t].todo = @ \ {c}]
    /\ UNCHANGED << response, mainVars, listenerVars, hooks, connVars, pressed, stdout >>

\* Line 84, inside emit: the send to one recipient fails and the library
\* closes that connection (its disconnect handler runs, lines 76-79) and
\* goes on with the next recipient.
SendFailsClosed(t, c) ==
    /\ Alive
    /\ tasks[t].pc = "sending"
    /\ tasks[t].todo # {}
    /\ c = NextRecipient(t)
    /\ connState[c] = "OPEN"
    /\ connState' = [connState EXCEPT ![c] = "CLOSED"]
    /\ stdout' = print(Line("disconnected", "", c))
    /\ tasks' = [tasks EXCEPT ![t].todo = @ \ {c}]
    /\ UNCHANGED << response, mainVars, listenerVars, hooks, inbox, pressed >>

\* A relay that catches a failed send and runs the broadcast again.
M_SendRaises_retry(t, c) ==
    /\ Alive
    /\ tasks[t].pc = "sending"
    /\ tasks[t].todo # {}
    /\ c = NextRecipient(t)
    /\ connState[c] = "OPEN"
    /\ tasks' = [tasks EXCEPT ![t].pc = "scheduled", ![t].todo = {}]
    /\ UNCHANGED << response, mainVars, listenerVars, hooks, connVars,
                    pressed, stdout >>

\* Line 84, inside emit: the send to one recipient fails and the error
\* is raised out of socketio.emit.  _send_command_to_browsers has no
\* handler, so the exception ends the task: the remaining recipients
\* are never sent to and line 85 is not reached.
SendRaises(t, c) ==
    /\ Alive
    /\ tasks[t].pc = "sending"
    /\ tasks[t].todo # {}
    /\ c = NextRecipient(t)
    /\ connState[c] = "OPEN"
    /\ connState' = [connState EXCEPT ![c] = "CLOSED"]
    /\ stdout' = print(Line("disconnected", "", c))
    /\ tasks' = [tasks EXCEPT ![t].pc = "raised", ![t].todo = {}]
    /\ UNCHANGED << response, mainVars, listenerVars, hooks, inbox, pressed >>

\* Lines 84-85: socketio.emit returns and the success line is printed.
TaskLog(t) ==
    /\ Alive
    /\ tasks[t].pc = "sending"
    /\ tasks[t].todo = {}
    /\ tasks' = [tasks EXCEPT ![t].pc = "done"]
    /\ stdout' = print(Line("sent", tasks[t].info.log_message, 0))
    /\ UNCHANGED << response, mainVars, listenerVars, hooks, connVars, pressed >>

\* ---------------------------------------------------------- specification
TaskIds == 1..Len(tasks)

Next ==
    \/ StartListenerThread
    \/ load_up_message
    \/ ServerStarts
    \/ ServerStartFails
    \/ ServerReturns
    \/ ServerRaises
    \/ Interrupt
    \/ ExceptHandler
    \/ FinallyBlock
    \/ ProcessExit
    \/ RegisterHotkey
    \/ RegisterHotkeyRaises
    \/ ListenerStarted
    \/ \E sid \in Conns : handle_connect(sid)
    \/ \E sid \in Conns : handle_disconnect(sid)
    \/ \E k \in PressKeys : on_hotkey_press(k)
    \/ \E k \in Registered : HotkeyCallback(k)
    \/ \E t \in TaskIds : TaskEmit(t)
    \/ \E t \in TaskIds, c \in Conns : SendDelivered(t, c)
    \/ \E t \in TaskIds, c \in Conns : SendSkipped(t, c)
    \/ \E t \in TaskIds, c \in Conns : SendFailsClosed(t, c)
    \/ \E t \in TaskIds, c \in Conns : SendRaises(t, c)
    \/ \E t \in TaskIds : TaskLog(t)
    \/ index
    \/ \E sid \in Conns : inbound_event(sid)

Spec == Init /\ [][Next]_vars

\* The relay and the connection server once the program is up: start-up of
\* the main thread, connections, and the background tasks.
RelayCommon ==
    \/ StartListenerThread
    \/ load_up_message
    \/ ServerStarts
    \/ \E sid \in Conns : handle_connect(sid)
    \/ \E sid \in Conns : handle_disconnect(sid)
    \/ \E t \in TaskIds : TaskEmit(t)
    \/ \E t \in TaskIds, c \in Conns : SendDelivered(t, c)
    \/ \E t \in TaskIds, c \in Conns : SendSkipped(t, c)
    \/ \E t \in TaskIds, c \in Conns : SendFailsClosed(t, c)
    \/ \E t \in TaskIds, c \in Conns : SendRaises(t, c)
    \/ \E t \in TaskIds : TaskLog(t)

\* ... with presses of a registered and of an unregistered identifier.
RelayNext ==
    \/ RelayCommon
    \/ \E k \in PressKeys : on_hotkey_press(k)

RelaySpec == Init /\ [][RelayNext]_vars

\* ... with presses of two registered identifiers.
OrderNext ==
    \/ RelayCommon
    \/ \E k \in OrderKeys : on_hotkey_press(k)

OrderSpec == Init /\ [][OrderNext]_vars

\* The relay together with the status route and inbound client traffic.
StatusNext ==
    \/ RelayNext
    \/ index
    \/ \E sid \in Conns : inbound_event(sid)

StatusSpec == Init /\ [][StatusNext]_vars

\* The life cycle of the process: the main thread from start to exit, the
\* listener thread, and the callbacks the keyboard library runs.
LifecycleNext ==
    \/ StartListenerThread
    \/ load_up_message
    \/ ServerStarts
    \/ ServerStartFails
    \/ ServerReturns
    \/ ServerRaises
    \/ Interrupt
    \/ ExceptHandler
    \/ FinallyBlock
    \/ ProcessExit
    \/ RegisterHotkey
    \/ RegisterHotkeyRaises
    \/ ListenerStarted
    \/ \E k \in Registered : HotkeyCallback(k)

LifecycleSpec == Init /\ [][LifecycleNext]_vars

\* ------------------------------------------------------------- properties
\* Positions in connection c's inbox of the messages sent by task t.
MsgsFrom(c, t) == {i \in 1..Len(inbox[c]) : inbox[c][i].task = t}

\* Tasks started by the i-th call of on_hotkey_press.
TasksOfPress(i) == {t \in TaskIds : tasks[t].press = i}

\* C1: every call on_hotkey_press(k) with k a key of HOTKEY_ACTIONS gets
\* exactly one background task, that task calls socketio.emit at most once
\* (exactly once as soon as it has run), the event is 'command_to_browser'
\* and the payload's action is HOTKEY_ACTIONS[k]['emit_action'], whatever
\* the sequence and interleaving of presses.
C1_OneBroadcastPerRegisteredPress ==
    \A i \in 1..Len(pressed) :
        pressed[i] \in DOMAIN HOTKEY_ACTIONS =>
            /\ Cardinality(TasksOfPress(i)) = 1
            /\ \A t \in TasksOfPress(i) :
                 /\ tasks[t].emits <= 1
                 /\ tasks[t].pc # "scheduled" => tasks[t].emits = 1
                 /\ \A c \in Conns : \A j \in MsgsFrom(c, t) :
                      /\ inbox[c][j].event = "command_to_browser"
                      /\ inbox[c][j].action =
                             HOTKEY_ACTIONS[pressed[i]].emit_action

\* A second press of a registered key has been handled, its task has
\* completed its single emit and a client holds the 'next_video' message.
C1_Witness ==
    /\ Len(pressed) = 2
    /\ pressed[2] = "f2"
    /\ \E t \in TaskIds :
         /\ tasks[t].press = 2
         /\ tasks[t].pc = "done"
         /\ tasks[t].emits = 1
         /\ \E c \in Conns : \E j \in MsgsFrom(c, t) :
              inbox[c][j].action = "next_video"

\* C2: a call on_hotkey_press(k') with k' not a key of HOTKEY_ACTIONS adds
\* exactly one 'Unhandled hotkey pressed' line to stdout, starts no
\* background task, delivers nothing and changes nothing else.
C2_UnregisteredPressOnlyLogs ==
    [][ (/\ Len(pressed') = Len(pressed) + 1
         /\ pressed'[Len(pressed')] \notin DOMAIN HOTKEY_ACTIONS)
        =>
        (/\ stdout' = stdout (+)
                SetToBag({Line("unhandled", pressed'[Len(pressed')], 0)})
         /\ tasks' = tasks
         /\ inbox' = inbox
         /\ connState' = connState
         /\ hooks' = hooks
         /\ UNCHANGED mainVars
         /\ UNCHANGED listenerVars) ]_vars

\* An unregistered identifier was pressed while a client was connected and
\* a task was waiting: one notice, the client has received nothing.
C2_Witness ==
    /\ \E i \in 1..Len(pressed) : pressed[i] = "f9"
    /\ Printed(Line("unhandled", "f9", 0)) >= 1
    /\ \E c \in Conns : connState[c] = "OPEN" /\ inbox[c] = << >>
    /\ \E t \in TaskIds : tasks[t].pc = "scheduled"

\* C3: when socketio.emit has returned, every connection that had joined
\* when it was called and is still open holds that task's message, once,
\* with the task's action: N connected clients that do not fail all get
\* the same message.
C3_BroadcastReachesEveryOpenConnection ==
    \A t \in TaskIds :
        tasks[t].pc = "done" =>
            \A c \in tasks[t].joinedAtEmit :
                connState[c] = "OPEN" =>
                    /\ Cardinality(MsgsFrom(c, t)) = 1
                    /\ \A j \in MsgsFrom(c, t) :
                         inbox[c][j].action = tasks[t].info.emit_action

\* Two clients were connected when a press was broadcast, neither failed,
\* and both hold the message.
C3_Witness ==
    \E t \in TaskIds :
        /\ tasks[t].pc = "done"
        /\ Cardinality(tasks[t].joinedAtEmit) = 2
        /\ \A c \in tasks[t].joinedAtEmit :
             /\ connState[c] = "OPEN"
             /\ Cardinality(MsgsFrom(c, t)) = 1

\* C4: when, during a broadcast that has other recipients left, the send
\* to one recipient fails, that connection ends closed and the broadcast
\* is not aborted: it goes on with the remaining recipients.
C4_OneFailureDoesNotAbortBroadcast ==
    [][ \A t \in TaskIds : \A c \in Conns :
          (/\ tasks[t].pc = "sending"
           /\ Cardinality(tasks[t].todo) >= 2
           /\ c \in tasks[t].todo
           /\ tasks'[t] # tasks[t]
           /\ connState[c] = "OPEN"
           /\ connState'[c] = "CLOSED")
          =>
          (/\ tasks'[t].pc = "sending"
           /\ tasks'[t].todo = tasks[t].todo \ {c}) ]_vars

\* C5: per connection, messages arrive in press order: if the press of
\* task a was handled before the press of task b and an open connection
\* holds both messages, a's message comes first (stated for two presses
\* with different actions, which the client can tell apart).
C5_PerConnectionPressOrder ==
    \A c \in Conns : \A a, b \in TaskIds :
        (/\ connState[c] = "OPEN"
         /\ tasks[a].press < tasks[b].press
         /\ tasks[a].info.emit_action # tasks[b].info.emit_action) =>
            \A i \in MsgsFrom(c, a) : \A j \in MsgsFrom(c, b) : i < j

\* C6: no exception leaves a background task: a transport failure during
\* the broadcast is caught inside _send_command_to_browsers.
C6_NoExceptionLeavesTheTask ==
    \A t \in TaskIds : tasks[t].pc # "raised"

C8_StartupFailureExitsNonZero ==
    (pcMain = "exited" /\ server = "failed") =>
        /\ Printed(Line("error_running_server", "", 0)) >= 1
        /\ unhookCalls >= 1
        /\ exitCode = "nonzero"

\* C9: when the listener thread is over and nothing has been unhooked,
\* every combination of HOTKEY_ACTIONS whose add_hotkey did not raise is
\* registered with the keyboard library.
C9_RegistrationContinuesAfterFailure ==
    (lpc \in {"done", "raised"} /\ unhookCalls = 0) =>
        \A k \in DOMAIN HOTKEY_ACTIONS \ regFailed :
            \E h \in hooks : h.combo = k

\* C10: a connect adds exactly that connection to the open set, a
\* disconnect removes exactly that connection, a closed connection stays
\* closed, and a press changes no connection: connect followed by
\* disconnect of one client is a net zero change of the open set.
C10_ConnectDisconnectNetZero ==
    [][ /\ \A c \in Conns :
             /\ (connState[c] = "NEW" /\ connState'[c] = "OPEN")
                    => OpenConns' = OpenConns \cup {c}
             /\ (connState[c] = "OPEN" /\ connState'[c] = "CLOSED")
                    => OpenConns' = OpenConns \ {c}
             /\ connState[c] = "CLOSED" => connState'[c] = "CLOSED"
             /\ connState[c] = "NEW" => connState'[c] \in {"NEW", "OPEN"}
        /\ pressed' # pressed => connState' = connState ]_vars

\* The first client connected and disconnected while the second stayed
\* connected and a press was handled in between: the open set is again
\* the second client alone.
C10_Witness ==
    /\ connState[1] = "CLOSED"
    /\ Printed(Line("connected", "", 1)) = 1
    /\ Printed(Line("disconnected", "", 1)) = 1
    /\ OpenConns = {2}
    /\ pressed # << >>

\* C11: a task that calls socketio.emit while no connection is open gets
\* an empty recipient list and delivers nothing; and the only step a task
\* with nothing left to send can take is to return from emit and print its
\* success line, again delivering nothing: the broadcast ends without an
\* error.
C11_BroadcastToNobodySucceedsSilently ==
    [][ \A t \in TaskIds :
          /\ (/\ tasks[t].pc = "scheduled"
              /\ tasks'[t] # tasks[t]
              /\ OpenConns = {})
             => (/\ tasks'[t].pc = "sending"
                 /\ tasks'[t].todo = {}
                 /\ inbox' = inbox)
          /\ (/\ tasks[t].pc = "sending"
              /\ tasks[t].todo = {}
              /\ tasks'[t] # tasks[t])
             => (/\ tasks'[t].pc = "done"
                 /\ inbox' = inbox
                 /\ connState' = connState
                 /\ stdout' = stdout (+) SetToBag(
                        {Line("sent", tasks[t].info.log_message, 0)})) ]_vars

\* A press was broadcast after the only client had left: the task is done,
\* its success line is printed and no client holds a message.
C11_Witness ==
    /\ OpenConns = {}
    /\ connState[1] = "CLOSED"
    /\ \E t \in TaskIds :
         /\ tasks[t].pc = "done"
         /\ tasks[t].joinedAtEmit = {1}
         /\ Printed(Line("sent", tasks[t].info.log_message, 0)) >= 1
    /\ \A c \in Conns : inbox[c] = << >>

\* Every variable but the status response.
notResponse ==
    << pcMain, server, pending, exitCode, unhookCalls, lpc, lidx, hooks,
       regFailed, connState, inbox, pressed, tasks, stdout >>

\* C12: while the server is serving, GET / can always be answered; every
\* answer is a 200 whose body carries the configured host and port; and a
\* step that answers changes nothing else: no connection, no task, no
\* message to any client, no printed line.
C12_StatusRouteHasNoSideEffects ==
    /\ []((Alive /\ server = "accepting") => ENABLED index)
    /\ [](response # NoResponse =>
            /\ response.status = 200
            /\ response.host = "127.0.0.1"
            /\ response.port = 8000)
    /\ [][response' # response => UNCHANGED notResponse]_vars

\* GET / was answered in the middle of a broadcast: one client already
\* holds the message and the task still has a recipient to send to.
C12_Witness ==
    /\ response = StatusBody
    /\ \E t \in TaskIds :
         /\ tasks[t].pc = "sending"
         /\ tasks[t].todo # {}
         /\ \E c \in Conns : MsgsFrom(c, t) # {}

\* C13: on_hotkey_press hands off: the step that handles a press sends
\* nothing and touches no running task, and the task it starts has not
\* called socketio.emit yet; and a press can be handled in every state of
\* a live process (while fewer than MaxPresses were made), whatever the
\* earlier broadcasts are doing.
C13_PressHandsOffAndNeverWaits ==
    /\ [](\A k \in PressKeys :
            (Alive /\ Len(pressed) < MaxPresses) =>
                ENABLED on_hotkey_press(k))
    /\ [][ Len(pressed') = Len(pressed) + 1 =>
             /\ inbox' = inbox
             /\ connState' = connState
             /\ \A t \in TaskIds : tasks'[t] = tasks[t]
             /\ \A t \in 1..Len(tasks') :
                  t \notin TaskIds =>
                      /\ tasks'[t].pc = "scheduled"
                      /\ tasks'[t].emits = 0 ]_vars

\* The second press was handled, and even broadcast, while the broadcast
\* of the first press still has a recipient to send to.
C13_Witness ==
    /\ Len(tasks) = 2
    /\ tasks[1].pc = "sending"
    /\ tasks[1].todo # {}
    /\ tasks[2].pc = "done"
    /\ \E c \in Conns : MsgsFrom(c, 2) # {}

\* C14: connections may join and leave while broadcasts run: once a
\* broadcast is over, every connection that was open when it started and
\* is still open holds exactly one message of it.
C14_OpenThroughoutReceivesExactlyOnce ==
    \A t \in TaskIds :
        tasks[t].pc \in {"done", "raised"} =>
            \A c \in tasks[t].joinedAtEmit :
                connState[c] = "OPEN" => Cardinality(MsgsFrom(c, t)) = 1

\* C15: when start_hotkey_listener has completed and nothing has been
\* unhooked, the combinations registered are exactly the keys of
\* HOTKEY_ACTIONS, each with one callback, and the callback of combination
\* k passes k itself to on_hotkey_press.
C15_EachCallbackBoundToItsOwnCombination ==
    (lpc = "done" /\ unhookCalls = 0) =>
        /\ {h.combo : h \in hooks} = DOMAIN HOTKEY_ACTIONS
        /\ \A k \in DOMAIN HOTKEY_ACTIONS :
             Cardinality({h \in hooks : h.combo = k}) = 1
        /\ \A h \in hooks : h.hs = h.combo

\* The listener completed with six hooks, and the callbacks of 'escape'
\* and then of 'f2' ran: each press was handled under its own identifier.
C15_Witness ==
    /\ lpc = "done"
    /\ unhookCalls = 0
    /\ Cardinality(hooks) = Len(HotkeyOrder)
    /\ pressed = << "escape", "f2" >>
    /\ tasks[1].info = HOTKEY_ACTIONS["escape"]
    /\ tasks[2].info = HOTKEY_ACTIONS["f2"]

\* C17: the channel is one-directional.  A step that puts a message on a
\* connection is a send of a running task whose press was an identifier of
\* HOTKEY_ACTIONS, and it is no connect, disconnect or GET /; a task is
\* started only by the press of such an identifier; so connect,
\* disconnect, inbound traffic and GET / send nothing and start nothing.
C17_OnlyRegisteredPressSends ==
    [][ /\ inbox' # inbox =>
             /\ connState' = connState
             /\ response' = response
             /\ pressed' = pressed
             /\ \E t \in TaskIds, c \in Conns :
                  /\ tasks[t].pc = "sending"
                  /\ pressed[tasks[t].press] \in DOMAIN HOTKEY_ACTIONS
                  /\ inbox' = Deliver(c, Payload(t))
                  /\ tasks'[t].todo = tasks[t].todo \ {c}
        /\ Len(tasks') # Len(tasks) =>
             /\ Len(tasks') = Len(tasks) + 1
             /\ Len(pressed') = Len(pressed) + 1
             /\ pressed'[Len(pressed')] \in DOMAIN HOTKEY_ACTIONS
             /\ connState' = connState
             /\ response' = response ]_vars

\* The first client connected and left, the second is connected, GET /
\* was answered, an unregistered and a registered identifier were pressed:
\* the only message anywhere is the one of the registered press.
C17_Witness ==
    /\ connState = << "CLOSED", "OPEN" >>
    /\ response = StatusBody
    /\ pressed = << "f9", "f2" >>
    /\ Len(tasks) = 1
    /\ tasks[1].pc = "done"
    /\ inbox[1] = << >>
    /\ inbox[2] = << Payload(1) >>

\* C18: nothing is retried.  A task calls socketio.emit at most once, a
\* task that ended (emit returned or raised) never runs again, a running
\* emit never adds a recipient back, and no connection holds more than one
\* message for one press.
C18_NothingIsRetried ==
    /\ [](\A t \in TaskIds : tasks[t].emits <= 1)
    /\ [](\A i \in 1..Len(pressed), c \in Conns :
            Cardinality({<<t, m>> \in TasksOfPress(i) \X (1..Len(inbox[c])) :
                            inbox[c][m].task = t}) <= 1)
    /\ [][ \A t \in TaskIds :
             /\ tasks[t].pc \in {"done", "raised"} => tasks'[t] = tasks[t]
             /\ tasks[t].pc = "sending" =>
                    tasks'[t].todo \subseteq tasks[t].todo ]_vars

\* A broadcast delivered to the first connection, failed on the second
\* and ended there: the first holds one message, the second none.
C18_Witness ==
    \E t \in TaskIds :
        /\ tasks[t].pc = "raised"
        /\ tasks[t].emits = 1
        /\ tasks[t].joinedAtEmit = {1, 2}
        /\ Cardinality(MsgsFrom(1, t)) = 1
        /\ connState[2] = "CLOSED"
        /\ MsgsFrom(2, t) = {}

\* C19: the success line of a press is printed only once its
\* socketio.emit has returned.  The lines printed for an action are as
\* many as the tasks of that action whose emit returned, so a task that
\* has not emitted yet, is still sending, or whose emit raised has no
\* line; and a task with a line has emitted and has nobody left to send to.
C19_SuccessLineOnlyAfterEmitReturned ==
    /\ \A k \in DOMAIN HOTKEY_ACTIONS :
         Printed(Line("sent", HOTKEY_ACTIONS[k].log_message, 0)) =
             Cardinality({t \in TaskIds : /\ tasks[t].pc = "done"
                                          /\ tasks[t].info = HOTKEY_ACTIONS[k]})
    /\ \A t \in TaskIds :
         tasks[t].pc = "done" => (tasks[t].emits = 1 /\ tasks[t].todo = {})

\* Two presses of 'f2': the emit of the first raised after the first
\* connection was served, the emit of the second returned.  One success
\* line is printed, not two.
C19_Witness ==
    /\ pressed = << "f2", "f2" >>
    /\ Len(tasks) = 2
    /\ tasks[1].pc = "raised"
    /\ MsgsFrom(1, 1) # {}
    /\ tasks[2].pc = "done"
    /\ Printed(Line("sent", HOTKEY_ACTIONS["f2"].log_message, 0)) = 1

\* C20: broadcasts are neither buffered nor replayed.  A connection holds
\* a message of a broadcast only if it had joined when that broadcast's
\* emit started; the step in which a connection opens puts nothing on any
\* channel; and a message is put only on a connection that is open.  A
\* client that comes back is a new connection, so it gets nothing of what
\* was broadcast while it was away.
C20_NoReplayToLaterConnections ==
    /\ [](\A t \in TaskIds, c \in Conns :
            MsgsFrom(c, t) # {} => c \in tasks[t].joinedAtEmit)
    /\ [][ \A c \in Conns :
             /\ (connState[c] = "NEW" /\ connState'[c] = "OPEN")
                    => inbox' = inbox
             /\ inbox'[c] # inbox[c] => connState[c] = "OPEN" ]_vars

\* The press was broadcast to the first client, which then left; the
\* client that connected afterwards holds nothing.
C20_Witness ==
    /\ connState = << "CLOSED", "OPEN" >>
    /\ Len(tasks) = 1
    /\ tasks[1].pc = "done"
    /\ tasks[1].joinedAtEmit = {1}
    /\ inbox[1] = << Payload(1) >>
    /\ inbox[2] = << >>
    /\ response = NoResponse

====
